---- MODULE Spec2Model ----
(***************************************************************************)
(* A model of the randomize crate: the linear congruential core and its   *)
(* jump-ahead (formulas.rs), the PCG32 generators (pcg.rs, pcg32.rs,       *)
(* lib.rs), the bounded samplers (lib.rs, gen32.rs, dice.rs), the unit     *)
(* floats (formulas.rs, free_utils.rs) and the seeding from the operating  *)
(* system (os_random.rs).                                                  *)
(*                                                                         *)
(* TLC's integers are 32 bits wide, so the machine words are scaled down:  *)
(* a u32 is Bits32 bits wide, a u64 twice that, a u128 four times that and *)
(* a u16 half of it.  Every shift amount the source derives from           *)
(* a word width is derived here from the scaled width in the same way,     *)
(* and all arithmetic wraps at the scaled width.                           *)
(***************************************************************************)
EXTENDS Integers, Sequences, FiniteSets, TLC

VARIABLES walk, comp, pcg, pcgk, br, fl, pair, os, per, die, seq, ex, sh

vars == <<walk, comp, pcg, pcgk, br, fl, pair, os, per, die, seq, ex, sh>>

\* the variables an experiment on one component leaves alone
varsButWalk == <<comp, pcg, pcgk, br, fl, pair, os, per, die, seq, ex, sh>>
varsButComp == <<walk, pcg, pcgk, br, fl, pair, os, per, die, seq, ex, sh>>
varsButPcg == <<walk, comp, pcgk, br, fl, pair, os, per, die, seq, ex, sh>>
varsButPcgk == <<walk, comp, pcg, br, fl, pair, os, per, die, seq, ex, sh>>
varsButBr == <<walk, comp, pcg, pcgk, fl, pair, os, per, die, seq, ex, sh>>
varsButFl == <<walk, comp, pcg, pcgk, br, pair, os, per, die, seq, ex, sh>>
varsButPair == <<walk, comp, pcg, pcgk, br, fl, os, per, die, seq, ex, sh>>
varsButOs == <<walk, comp, pcg, pcgk, br, fl, pair, per, die, seq, ex, sh>>
varsButPer == <<walk, comp, pcg, pcgk, br, fl, pair, os, die, seq, ex, sh>>
varsButDie == <<walk, comp, pcg, pcgk, br, fl, pair, os, per, seq, ex, sh>>
varsButSeq == <<walk, comp, pcg, pcgk, br, fl, pair, os, per, die, ex, sh>>
varsButEx == <<walk, comp, pcg, pcgk, br, fl, pair, os, per, die, seq, sh>>
varsButSh == <<walk, comp, pcg, pcgk, br, fl, pair, os, per, die, seq, ex>>

(***************************************************************************)
(* Bounds.                                                                 *)
(***************************************************************************)
\* width of the model's u32
Bits32 == 4
\* the largest number of steps of one walk
MaxWalk == 65536

\* a u16 is half a u32: the u16 sampler multiplies in u32
Bits16 == Bits32 \div 2
Bits64 == 2 * Bits32
Bits128 == 2 * Bits64

\* the width in the model of the Rust unsigned type uW
Bits(w) == CASE w = 16 -> Bits16 [] w = 32 -> Bits32 [] w = 64 -> Bits64 [] w = 128 -> Bits128

\* uW::MAX
MaxOf(bits) == 2^bits - 1

Word(bits) == 0 .. MaxOf(bits)

(***************************************************************************)
(* Wrapping arithmetic of the unsigned integer types.                      *)
(***************************************************************************)
wrapping_add(bits, a, b) == (a + b) % 2^bits

\* a * b modulo 2^bits; b is split in two halves so that no intermediate
\* product exceeds TLC's integers (bits <= 20)
wrapping_mul(bits, a, b) ==
  LET h == bits \div 2
      lo == b % 2^h
      hi == b \div 2^h
  IN  (a * lo + (((a * hi) % 2^(bits - h)) * 2^h)) % 2^bits

wrapping_neg(bits, a) == (2^bits - a) % 2^bits

(***************************************************************************)
(* formulas.rs: the linear congruential core.                              *)
(***************************************************************************)
\* a step that leaves out the increment
lcg_step_noadd(bits, mul, add, state) == wrapping_mul(bits, state, mul)

lcg_step(bits, mul, add, state) == wrapping_add(bits, wrapping_mul(bits, state, mul), add)

\* a jump loop that composes the accumulated map in the wrong order
RECURSIVE lcg_jump_loop_swapped(_, _, _, _, _, _)
lcg_jump_loop_swapped(bits, cur_mult, cur_plus, acc_mult, acc_plus, delta) ==
  IF delta > 0
  THEN LET odd == (delta % 2) > 0
           acc_mult2 == IF odd THEN wrapping_mul(bits, acc_mult, cur_mult) ELSE acc_mult
           acc_plus2 == IF odd
                        THEN wrapping_add(bits, wrapping_mul(bits, acc_plus, acc_mult2), cur_plus)
                        ELSE acc_plus
           cur_plus2 == wrapping_mul(bits, wrapping_add(bits, cur_mult, 1), cur_plus)
           cur_mult2 == wrapping_mul(bits, cur_mult, cur_mult)
       IN  lcg_jump_loop_swapped(bits, cur_mult2, cur_plus2, acc_mult2, acc_plus2, delta \div 2)
  ELSE [acc_mult |-> acc_mult, acc_plus |-> acc_plus]

\* the while loop of lcgW_jump: returns the accumulated multiplier and adder
RECURSIVE lcg_jump_loop(_, _, _, _, _, _)
lcg_jump_loop(bits, cur_mult, cur_plus, acc_mult, acc_plus, delta) ==
  IF delta > 0
  THEN LET odd == (delta % 2) > 0
           acc_mult2 == IF odd THEN wrapping_mul(bits, acc_mult, cur_mult) ELSE acc_mult
           acc_plus2 == IF odd
                        THEN wrapping_add(bits, wrapping_mul(bits, acc_plus, cur_mult), cur_plus)
                        ELSE acc_plus
           cur_plus2 == wrapping_mul(bits, wrapping_add(bits, cur_mult, 1), cur_plus)
           cur_mult2 == wrapping_mul(bits, cur_mult, cur_mult)
       IN  lcg_jump_loop(bits, cur_mult2, cur_plus2, acc_mult2, acc_plus2, delta \div 2)
  ELSE [acc_mult |-> acc_mult, acc_plus |-> acc_plus]

\* lcgW_jump at the width of the type
lcg_jump(bits, mul, add, state, delta) ==
  LET acc == lcg_jump_loop(bits, mul, add, 1, 0, delta)
  IN  wrapping_add(bits, wrapping_mul(bits, state, acc.acc_mult), acc.acc_plus)

lcg32_step(mul, add, state) == lcg_step(Bits32, mul, add, state)
lcg32_jump(mul, add, state, delta) == lcg_jump(Bits32, mul, add, state, delta)
lcg64_step(mul, add, state) == lcg_step(Bits64, mul, add, state)
lcg64_jump(mul, add, state, delta) == lcg_jump(Bits64, mul, add, state, delta)
lcg128_step(mul, add, state) == lcg_step(Bits128, mul, add, state)
lcg128_jump(mul, add, state, delta) == lcg_jump(Bits128, mul, add, state, delta)

\* the step and the jump of the core for the Rust type uW
StepW(w, mul, add, state) ==
  CASE w = 32 -> lcg32_step(mul, add, state)
    [] w = 64 -> lcg64_step(mul, add, state)
    [] w = 128 -> lcg128_step(mul, add, state)

JumpW(w, mul, add, state, delta) ==
  CASE w = 32 -> lcg32_jump(mul, add, state, delta)
    [] w = 64 -> lcg64_jump(mul, add, state, delta)
    [] w = 128 -> lcg128_jump(mul, add, state, delta)

\* lcgW_step applied k times, one application after the other: the first
\* half of the applications, then the rest
RECURSIVE StepN(_, _, _, _, _)
StepN(w, mul, add, state, k) ==
  IF k = 0 THEN state
  ELSE IF k = 1 THEN StepW(w, mul, add, state)
  ELSE LET half == StepN(w, mul, add, state, k \div 2)
       IN  IF half >= 0 THEN StepN(w, mul, add, half, k - (k \div 2)) ELSE half

\* the multiplier 6364136223846793005 (0x5851F42D4C957F2D), of which the
\* model's u64 keeps the low Bits64 bits
PCG_MUL_64 == 360237 % 2^Bits64

(***************************************************************************)
(* Sampled machine words, for the widths too large to enumerate.           *)
(***************************************************************************)
MulsOf(w) == CASE w = 32 -> Word(Bits32)
               [] w = 64 -> {0, 1, 2, PCG_MUL_64, MaxOf(Bits64) - 1, MaxOf(Bits64)}
               [] w = 128 -> {2, PCG_MUL_64}
AddsOf(w) == CASE w = 32 -> Word(Bits32)
               [] w = 64 -> {0, 1, 2, MaxOf(Bits64)}
               [] w = 128 -> {1}
StartsOf(w) == CASE w = 32 -> {0, 1, 2^(Bits32 - 1) + 1, MaxOf(Bits32)}
                 [] w = 64 -> {0, 1, 2^(Bits64 - 1) + 1, MaxOf(Bits64)}
                 [] w = 128 -> {MaxOf(Bits128) - 1}

(***************************************************************************)
(* The walk: a state register advanced by lcgW_step alone, with the count  *)
(* of the steps applied to it.                                             *)
(***************************************************************************)
WalkIdle == [w |-> 0, mul |-> 0, add |-> 0, start |-> 0, cur |-> 0, n |-> 0]
CompIdle == [w |-> 0, mul |-> 0, add |-> 0, start |-> 0, cur |-> 0, njumps |-> 0,
             d1 |-> 0, d2 |-> 0]
PcgIdle == [kind |-> "none"]
PcgkIdle == [kind |-> "none"]
PairIdle == [kind |-> "none"]
PerIdle == [kind |-> "none"]
SeqIdle == [ty |-> "none", count |-> 0, threshold |-> 0, ws |-> <<>>, pos |-> 0,
            outs |-> <<>>, pc |-> "none"]
ExIdle == [ws |-> <<>>, debug |-> FALSE, done |-> {}, iter |-> [val |-> 0, used |-> 0, panic |-> FALSE],
           rec |-> [val |-> 0, used |-> 0, panic |-> FALSE]]
ShIdle == [pc |-> "none", debug |-> FALSE, orig |-> <<>>, buf |-> <<>>,
           possibility_count |-> 0, this_index |-> 0, end |-> 0, bound |-> 0, panic |-> "no"]
DieIdle == [fn |-> "none", sides |-> 0, count |-> 0, debug |-> FALSE, ws |-> <<>>,
            rolls |-> <<>>, result |-> 0, panic |-> FALSE]
OsIdle == [caller |-> "none", target |-> "none", pc |-> "none", chunk |-> 0, rest |-> 0,
           chunk_retries |-> 0, streak |-> 0, failed |-> FALSE, result |-> "none",
           gen |-> FALSE, panic |-> FALSE]
FlIdle == [fn |-> "none", signed |-> FALSE, debug |-> FALSE, ws |-> <<>>, panic |-> FALSE,
           bits |-> 0]
BrIdle == [ty |-> "none", how |-> "none", arg |-> 0, valid |-> FALSE, count |-> 0,
           threshold |-> 0, panic |-> FALSE, op |-> "none", res |-> [some |-> FALSE, val |-> 0], used |-> 0,
           ws |-> <<>>]

WalkInit ==
  /\ \E w \in {32, 64, 128} :
       \E mul \in MulsOf(w), add \in AddsOf(w), start \in StartsOf(w) :
         walk = [w |-> w, mul |-> mul, add |-> add, start |-> start, cur |-> start, n |-> 0]
  /\ comp = CompIdle /\ pcg = PcgIdle /\ pcgk = PcgkIdle /\ br = BrIdle /\ fl = FlIdle /\ pair = PairIdle /\ os = OsIdle /\ per = PerIdle /\ die = DieIdle /\ seq = SeqIdle /\ ex = ExIdle /\ sh = ShIdle

\* apply lcgW_step once to the register
LcgWalk ==
  /\ walk.w # 0
  /\ walk.n < MaxWalk
  /\ walk.n < MaxOf(Bits(walk.w))
  /\ walk' = [walk EXCEPT !.cur = StepW(walk.w, walk.mul, walk.add, walk.cur),
                          !.n = walk.n + 1]
  /\ UNCHANGED varsButWalk

WalkNext == LcgWalk

SpecWalk == WalkInit /\ [][WalkNext]_vars

\* C1: for each width, lcgW_jump(mul, add, state, delta) is the state reached
\* by applying lcgW_step delta times to state (delta = 0 and delta = 1
\* included), and a jump by 1 from any state is one direct step.
C1_JumpIsRepeatedStep ==
  walk.w # 0 =>
    /\ JumpW(walk.w, walk.mul, walk.add, walk.start, walk.n) = walk.cur
    /\ JumpW(walk.w, walk.mul, walk.add, walk.cur, 1) = StepW(walk.w, walk.mul, walk.add, walk.cur)

\* a walk of the 64-bit core with the PCG multiplier that has reached the
\* largest delta
C1_Witness ==
  /\ walk.w = 64
  /\ walk.mul = PCG_MUL_64
  /\ walk.n = MaxOf(Bits64)
  /\ walk.cur # walk.start

(***************************************************************************)
(* Composition of jumps: two jumps in a row from a start state.            *)
(***************************************************************************)
DeltasOf(w) == IF w = 32 THEN Word(Bits32)
               ELSE {0, 1, 2, 3, 2^(Bits(w) - 1), 2^(Bits(w) - 1) + 1,
                     MaxOf(Bits(w)) - 1, MaxOf(Bits(w))}

CompInit ==
  /\ \E w \in {32, 64, 128} :
       \E mul \in MulsOf(w), add \in {0, 1, MaxOf(Bits(w))}, start \in {0, MaxOf(Bits(w)) - 2} :
         comp = [w |-> w, mul |-> mul, add |-> add, start |-> start, cur |-> start,
                 njumps |-> 0, d1 |-> 0, d2 |-> 0]
  /\ walk = WalkIdle /\ pcg = PcgIdle /\ pcgk = PcgkIdle /\ br = BrIdle /\ fl = FlIdle /\ pair = PairIdle /\ os = OsIdle /\ per = PerIdle /\ die = DieIdle /\ seq = SeqIdle /\ ex = ExIdle /\ sh = ShIdle

\* cur = lcgW_jump(mul, add, cur, delta), the first and the second time
LcgCompose(delta) ==
  /\ comp.w # 0
  /\ comp.njumps < 2
  /\ comp' = [comp EXCEPT !.cur = JumpW(comp.w, comp.mul, comp.add, comp.cur, delta),
                          !.njumps = comp.njumps + 1,
                          !.d1 = IF comp.njumps = 0 THEN delta ELSE comp.d1,
                          !.d2 = IF comp.njumps = 1 THEN delta ELSE comp.d2]
  /\ UNCHANGED varsButComp

CompNext == \E delta \in DeltasOf(comp.w) : LcgCompose(delta)

SpecComp == CompInit /\ [][CompNext]_vars

\* the state one jump by delta1 + delta2 reaches, the sum wrapping at the
\* width of delta
ComposedJump ==
  JumpW(comp.w, comp.mul, comp.add, comp.start,
        wrapping_add(Bits(comp.w), comp.d1, comp.d2))

\* C2 as stated: for every mul, add, state, delta1 and delta2, a jump by
\* delta1 and then by delta2 gives the state of one jump by delta1 + delta2,
\* the sum taken in the word width of delta.
C2_Original == comp.njumps = 2 => comp.cur = ComposedJump

\* C2 amended: the two jumps compose to the one jump by the wrapped sum
\* whenever the multiplier is odd (as the PCG multiplier is) or the sum
\* delta1 + delta2 does not overflow the word.
C2_JumpComposes ==
  (comp.njumps = 2 /\ (comp.mul % 2 = 1 \/ comp.d1 + comp.d2 <= MaxOf(Bits(comp.w))))
    => comp.cur = ComposedJump

\* two jumps with the PCG multiplier whose deltas overflow the word when added
C2_Witness ==
  /\ comp.njumps = 2
  /\ comp.w = 64
  /\ comp.mul = PCG_MUL_64
  /\ comp.d1 + comp.d2 > MaxOf(Bits64)
  /\ comp.cur # comp.start

(***************************************************************************)
(* formulas.rs, pcg32.rs: the output permutation.                          *)
(***************************************************************************)
\* bitwise exclusive or
RECURSIVE Xor(_, _)
Xor(a, b) ==
  IF a = 0 THEN b
  ELSE IF b = 0 THEN a
  ELSE 2 * Xor(a \div 2, b \div 2) + ((a + b) % 2)

\* the integer types' rotate_right: the amount is taken modulo the width
rotate_right(bits, x, n) ==
  LET r == n % bits
  IN  (x \div 2^r + x * 2^(bits - r)) % 2^bits

\* the number of state bits that select the rotation (5 for a 32-bit output)
RotBits == CHOOSE r \in 0 .. Bits32 : 2^r <= Bits32 /\ Bits32 < 2^(r + 1)

\* formulas.rs, xsh_rr_u64_to_u32: shifts 64 - 5, (32 + 5) / 2 and 32 - 5
xsh_rr_u64_to_u32(state) ==
  LET rot_amount == (state \div 2^(Bits64 - RotBits)) % 2^Bits32
      xor_shifted == Xor(state, state \div 2^((Bits32 + RotBits) \div 2))
      kept_bits == (xor_shifted \div 2^(Bits32 - RotBits)) % 2^Bits32
  IN  rotate_right(Bits32, kept_bits, rot_amount)

\* pcg32.rs, the macro xsh_rr_u64_to_u32!: shifts 18, 27 and 59
xsh_rr_u64_to_u32_macro(state) ==
  LET shift18 == (Bits32 + RotBits) \div 2
      shift27 == Bits32 - RotBits
      shift59 == Bits64 - RotBits
  IN  rotate_right(Bits32,
                   (Xor(state \div 2^shift18, state) \div 2^shift27) % 2^Bits32,
                   (state \div 2^shift59) % 2^Bits32)

\* pcg32.rs, the macro pcg_core_state64!
pcg_core_state64(state, inc) == wrapping_add(Bits64, wrapping_mul(Bits64, state, PCG_MUL_64), inc)

(***************************************************************************)
(* pcg.rs PCG32 (and lib.rs PCG32), pcg32.rs Pcg32: the basic generators.  *)
(***************************************************************************)
\* a next_u32 that permutes the advanced state
PCG32_next_u32_late(state, inc) ==
  LET new_state == lcg64_step(PCG_MUL_64, inc, state)
  IN  [out |-> xsh_rr_u64_to_u32(new_state), state |-> new_state]

\* PCG32::next_u32: the output and the new state
PCG32_next_u32(state, inc) ==
  LET new_state == lcg64_step(PCG_MUL_64, inc, state)
      out == xsh_rr_u64_to_u32(state)
  IN  [out |-> out, state |-> new_state]

\* Pcg32::next_u32: the output and the new state
Pcg32_next_u32(state, inc) ==
  LET out == xsh_rr_u64_to_u32_macro(state)
  IN  [out |-> out, state |-> pcg_core_state64(state, inc)]

\* a jump that advances along the stream of increment 1
PCG32_jump_stream1(state, inc, delta) == lcg64_jump(PCG_MUL_64, 1, state, delta)

\* PCG32::jump: the new state
PCG32_jump(state, inc, delta) == lcg64_jump(PCG_MUL_64, inc, state, delta)

\* make_jump_lcgX!(jump_lcg32, u64): the macro is not among the sources; it
\* is the closed-form jump of the specification (section 4.1)
jump_lcg32(delta, state, mult, inc) == lcg_jump(Bits64, mult, inc, state, delta)

\* Pcg32::jump: the new state
Pcg32_jump(state, inc, delta) == jump_lcg32(delta, state, PCG_MUL_64, inc)

NextU32Of(kind, state, inc) ==
  IF kind = "PCG32" THEN PCG32_next_u32(state, inc) ELSE Pcg32_next_u32(state, inc)

JumpOf(kind, state, inc, delta) ==
  IF kind = "PCG32" THEN PCG32_jump(state, inc, delta) ELSE Pcg32_jump(state, inc, delta)

\* the largest number of next_u32 calls and of jump calls on one generator
MaxCalls == 4
MaxJumps == 2

PcgStates == {0, 2^Bits32 + 3, MaxOf(Bits64)}
PcgIncs == {0, 1, 2^(Bits64 - 1) + 3, MaxOf(Bits64) - 1}
PcgDeltas == {0, 1, 2^Bits32 + 1, 2^(Bits64 - 1), MaxOf(Bits64)}

\* PCG32::new(state, inc) and Pcg32::from([state, inc]).  Beside the
\* generator (state, inc) the record keeps the history of the run: the
\* initial state and increment, ref, the initial state advanced by
\* lcg64_step once per step asked for, old and oldref, the values of state
\* and ref before the last next_u32 call, and the counts of the calls.
PcgInit ==
  /\ \E kind \in {"PCG32", "Pcg32"}, state \in PcgStates, inc \in PcgIncs :
       pcg = [kind |-> kind, state |-> state, inc |-> inc,
              start |-> state, inc0 |-> inc, ref |-> state, old |-> state, oldref |-> state,
              out |-> 0, calls |-> 0, jumps |-> 0, last |-> "new"]
  /\ walk = WalkIdle /\ comp = CompIdle /\ pcgk = PcgkIdle /\ br = BrIdle /\ fl = FlIdle /\ pair = PairIdle /\ os = OsIdle /\ per = PerIdle /\ die = DieIdle /\ seq = SeqIdle /\ ex = ExIdle /\ sh = ShIdle

PcgLive == pcg.kind # "none" /\ pcg.last \notin {"back_neg", "back_max"}

\* g.next_u32()
PcgNextU32 ==
  /\ PcgLive
  /\ pcg.calls < MaxCalls
  /\ LET r == NextU32Of(pcg.kind, pcg.state, pcg.inc)
     IN  pcg' = [pcg EXCEPT !.state = r.state, !.out = r.out,
                            !.old = pcg.state, !.oldref = pcg.ref,
                            !.ref = lcg64_step(PCG_MUL_64, pcg.inc0, pcg.ref),
                            !.calls = pcg.calls + 1,
                            !.last = "next"]
  /\ UNCHANGED varsButPcg

\* g.jump(delta)
PcgJump(delta) ==
  /\ PcgLive
  /\ pcg.jumps < MaxJumps
  /\ pcg' = [pcg EXCEPT !.state = JumpOf(pcg.kind, pcg.state, pcg.inc, delta),
                        !.ref = StepN(64, PCG_MUL_64, pcg.inc0, pcg.ref, delta),
                        !.jumps = pcg.jumps + 1,
                        !.last = "jump"]
  /\ UNCHANGED varsButPcg

\* pcg.rs: after x calls of next_u32 alone, g.jump(x.wrapping_neg())
PcgJumpBackNeg ==
  /\ PcgLive
  /\ pcg.kind = "PCG32"
  /\ pcg.jumps = 0
  /\ pcg' = [pcg EXCEPT !.state = PCG32_jump(pcg.state, pcg.inc, wrapping_neg(Bits64, pcg.calls)),
                        !.last = "back_neg"]
  /\ UNCHANGED varsButPcg

\* pcg32.rs: after n calls of next_u32 alone, g.jump(u64::MAX - n)
PcgJumpBackMax ==
  /\ PcgLive
  /\ pcg.kind = "Pcg32"
  /\ pcg.jumps = 0
  /\ pcg' = [pcg EXCEPT !.state = Pcg32_jump(pcg.state, pcg.inc, MaxOf(Bits64) - pcg.calls),
                        !.last = "back_max"]
  /\ UNCHANGED varsButPcg

PcgNext ==
  \/ PcgNextU32
  \/ \E delta \in PcgDeltas : PcgJump(delta)
  \/ PcgJumpBackNeg
  \/ PcgJumpBackMax

SpecPcg == PcgInit /\ [][PcgNext]_vars

\* C3: each next_u32 of the basic generator returns the permutation of the
\* state held before the call and leaves the state one step(MUL, inc, .)
\* after it; so the n-th output of a generator on which only next_u32 was
\* called is permute(step^(n-1)(initial state)).
C3_OutputOfOldState ==
  pcg.last = "next" =>
    /\ pcg.out = xsh_rr_u64_to_u32(pcg.old)
    /\ pcg.state = lcg64_step(PCG_MUL_64, pcg.inc, pcg.old)
    /\ pcg.jumps = 0 =>
         /\ pcg.out = xsh_rr_u64_to_u32(StepN(64, PCG_MUL_64, pcg.inc0, pcg.start, pcg.calls - 1))
         /\ pcg.state = StepN(64, PCG_MUL_64, pcg.inc0, pcg.start, pcg.calls)

\* the last of several calls, whose output differs from the permutation of
\* the advanced state
C3_Witness ==
  /\ pcg.last = "next"
  /\ pcg.calls = MaxCalls
  /\ pcg.jumps = 0
  /\ pcg.out # xsh_rr_u64_to_u32(pcg.state)
  /\ pcg.out # 0

\* C4: after any interleaving of next_u32 and jump(d) calls on a PCG32, inc
\* is its initial value and state is the initial state advanced by one
\* single step per next_u32 call and d single steps per jump(d); so a
\* next_u32 after jumps returns the output of that many single steps.
C4_StateIsStartPlusSteps ==
  (pcg.kind = "PCG32" /\ pcg.last \in {"new", "next", "jump"}) =>
    /\ pcg.inc = pcg.inc0
    /\ pcg.state = pcg.ref
    /\ pcg.last = "next" => pcg.out = xsh_rr_u64_to_u32(pcg.oldref)

\* a next_u32 after two jumps and other calls, away from the initial state
C4_Witness ==
  /\ pcg.kind = "PCG32"
  /\ pcg.last = "next"
  /\ pcg.jumps = MaxJumps
  /\ pcg.calls >= 2
  /\ pcg.state # pcg.start
  /\ pcg.inc > 1

\* C5: on a PCG32, x calls of next_u32 followed by jump(x.wrapping_neg())
\* restore the state the generator had before the calls.
C5_NegJumpGoesBack == pcg.last = "back_neg" => (pcg.state = pcg.start /\ pcg.inc = pcg.inc0)

\* a jump back over several calls that had moved the state
C5_Witness ==
  /\ pcg.last = "back_neg"
  /\ pcg.calls = MaxCalls
  /\ pcg.old # pcg.start
  /\ pcg.inc % 2 = 1

\* C6: on a Pcg32, n calls of next_u32 followed by jump(u64::MAX - n) return
\* the generator to the state it had before the n calls.
C6_MaxMinusNGoesBack == pcg.last = "back_max" => pcg.state = pcg.start

(***************************************************************************)
(* pcg.rs PCG32K<K>, lib.rs PCG32X<K>: the extended generators.  The       *)
(* extension array ext: [u32; K] is a sequence of K words, ext[i] of the   *)
(* source being ext[i + 1] here.  usize is taken to be 64 bits wide.       *)
(***************************************************************************)
\* u32::overflowing_add
overflowing_add(bits, a, b) == [val |-> (a + b) % 2^bits, carry |-> a + b > MaxOf(bits)]

\* a carry loop that goes on to the next element whether or not it carried
RECURSIVE ext_add_carry_nobreak(_, _, _)
ext_add_carry_nobreak(K, ext, i) ==
  IF i >= K THEN ext
  ELSE LET r == overflowing_add(Bits32, ext[i + 1], 1)
       IN  ext_add_carry_nobreak(K, [ext EXCEPT ![i + 1] = r.val], i + 1)

\* PCG32K::ext_add, the loop over self.ext[1..], from source index i
RECURSIVE ext_add_carry(_, _, _)
ext_add_carry(K, ext, i) ==
  IF i >= K THEN ext
  ELSE LET r == overflowing_add(Bits32, ext[i + 1], 1)
           ext2 == [ext EXCEPT ![i + 1] = r.val]
       IN  IF r.carry THEN ext_add_carry(K, ext2, i + 1) ELSE ext2

\* PCG32K::ext_add(delta): the new extension array
ext_add(K, ext, delta) ==
  IF K = 0 THEN ext
  ELSE LET r == overflowing_add(Bits32, ext[1], delta)
           ext2 == [ext EXCEPT ![1] = r.val]
       IN  IF r.carry THEN ext_add_carry(K, ext2, 1) ELSE ext2

\* a next_u32 that picks the extension word by the advanced state
PCG32K_next_u32_newindex(K, state, ext) ==
  LET new_state == lcg64_step(PCG_MUL_64, 1, state)
  IN  IF K > 0
      THEN [out |-> Xor(xsh_rr_u64_to_u32(state), ext[(new_state % K) + 1]),
            ext |-> IF state = 0 THEN ext_add(K, ext, 1) ELSE ext,
            state |-> new_state, panic |-> FALSE]
      ELSE [out |-> xsh_rr_u64_to_u32(state), ext |-> ext, state |-> new_state,
            panic |-> FALSE]

\* a next_u32 that never advances the extension array
PCG32K_next_u32_noadd(K, state, ext) ==
  LET new_state == lcg64_step(PCG_MUL_64, 1, state)
  IN  [out |-> IF K > 0 THEN Xor(xsh_rr_u64_to_u32(state), ext[(state % K) + 1])
               ELSE xsh_rr_u64_to_u32(state),
       ext |-> ext, state |-> new_state, panic |-> FALSE]

\* PCG32K::next_u32: the output, the new extension array and the new state
PCG32K_next_u32(K, state, ext) ==
  LET new_state == lcg64_step(PCG_MUL_64, 1, state)
  IN  IF K > 0
      THEN LET ext_index == state % K
               out == Xor(xsh_rr_u64_to_u32(state), ext[ext_index + 1])
           IN  [out |-> out,
                ext |-> IF state = 0 THEN ext_add(K, ext, 1) ELSE ext,
                state |-> new_state, panic |-> FALSE]
      ELSE [out |-> xsh_rr_u64_to_u32(state), ext |-> ext, state |-> new_state,
            panic |-> FALSE]

\* PCG32X::next_u32, the while loop: carry && i < K
RECURSIVE PCG32X_carry(_, _, _, _)
PCG32X_carry(K, ext, carry, i) ==
  IF carry /\ i < K
  THEN LET r == overflowing_add(Bits32, ext[i + 1], 1)
       IN  PCG32X_carry(K, [ext EXCEPT ![i + 1] = r.val], r.carry, i + 1)
  ELSE ext

\* PCG32X::next_u32: the output, the new extension array and the new state;
\* with K = 0 the remainder state % K panics before anything is assigned
PCG32X_next_u32(K, state, inc, ext) ==
  LET new_state == lcg64_step(PCG_MUL_64, inc, state)
  IN  IF K = 0
      THEN [out |-> 0, ext |-> ext, state |-> state, panic |-> TRUE]
      ELSE LET ext_index == state % K
               out == Xor(xsh_rr_u64_to_u32(state), ext[ext_index + 1])
           IN  [out |-> out, ext |-> PCG32X_carry(K, ext, new_state = 0, 0),
                state |-> new_state, panic |-> FALSE]

\* the largest length K of an extension array and the largest number of
\* next_u32 calls on one extended generator
MaxK == 3
MaxKCalls == 3

\* the state whose successor under lcg64_step(MUL, inc, .) is 0
StateBeforeZero(inc) == CHOOSE s \in Word(Bits64) : lcg64_step(PCG_MUL_64, inc, s) = 0

PcgkStates(inc) == {0, 1, 2, StateBeforeZero(inc), 2^(Bits64 - 1) + 5, MaxOf(Bits64)}
ExtWords == {0, 1, MaxOf(Bits32)}

\* PCG32K::new(state, ext) and PCG32X::new(state, inc, ext); old and oldext
\* are the state and the array before the last next_u32 call
PcgkInit ==
  /\ \E kind \in {"PCG32K", "PCG32X"}, K \in 0 .. MaxK :
       \E inc \in IF kind = "PCG32K" THEN {1} ELSE {1, 2^Bits32 + 3} :
         \E state \in PcgkStates(inc), ext \in [1 .. K -> ExtWords] :
           pcgk = [kind |-> kind, K |-> K, state |-> state, inc |-> inc, ext |-> ext,
                   old |-> state, oldext |-> ext, out |-> 0, calls |-> 0,
                   panic |-> FALSE, last |-> "new"]
  /\ walk = WalkIdle /\ comp = CompIdle /\ pcg = PcgIdle /\ br = BrIdle /\ fl = FlIdle /\ pair = PairIdle /\ os = OsIdle /\ per = PerIdle /\ die = DieIdle /\ seq = SeqIdle /\ ex = ExIdle /\ sh = ShIdle

\* g.next_u32()
PcgkNextU32 ==
  /\ pcgk.kind # "none"
  /\ ~pcgk.panic
  /\ pcgk.calls < MaxKCalls
  /\ LET r == IF pcgk.kind = "PCG32K"
              THEN PCG32K_next_u32(pcgk.K, pcgk.state, pcgk.ext)
              ELSE PCG32X_next_u32(pcgk.K, pcgk.state, pcgk.inc, pcgk.ext)
     IN  pcgk' = [pcgk EXCEPT !.state = r.state, !.ext = r.ext, !.out = r.out,
                              !.panic = r.panic, !.old = pcgk.state, !.oldext = pcgk.ext,
                              !.calls = pcgk.calls + 1, !.last = "next"]
  /\ UNCHANGED varsButPcgk

\* g.ext_add(1), as test_ext_add calls it on a PCG32K
PcgkExtAdd ==
  /\ pcgk.kind = "PCG32K"
  /\ ~pcgk.panic
  /\ pcgk.calls < MaxKCalls
  /\ pcgk' = [pcgk EXCEPT !.ext = ext_add(pcgk.K, pcgk.ext, 1), !.old = pcgk.state,
                           !.oldext = pcgk.ext, !.calls = pcgk.calls + 1,
                           !.last = "ext_add"]
  /\ UNCHANGED varsButPcgk

PcgkNext == PcgkNextU32 \/ PcgkExtAdd

SpecPcgk == PcgkInit /\ [][PcgkNext]_vars

RECURSIVE ExtValue(_, _)
ExtValue(K, ext) ==
  IF K = 0 THEN 0 ELSE ext[K] * 2^(Bits32 * (K - 1)) + ExtValue(K - 1, ext)

\* C11: a next_u32 call of the extended generator increments the extension
\* array by 1 if and only if the state after the call's step is zero, and
\* leaves the array unchanged on every other call.
C11_IncrementIffNewStateZero ==
  (pcgk.last = "next" /\ pcgk.K >= 1) =>
    ExtValue(pcgk.K, pcgk.ext) =
      IF pcgk.state = 0
      THEN (ExtValue(pcgk.K, pcgk.oldext) + 1) % 2^(Bits32 * pcgk.K)
      ELSE ExtValue(pcgk.K, pcgk.oldext)

\* the index of the first digit that does not overflow, K + 1 if all do
FirstNotMax(K, ext) ==
  IF \A i \in 1 .. K : ext[i] = MaxOf(Bits32) THEN K + 1
  ELSE CHOOSE j \in 1 .. K : /\ ext[j] # MaxOf(Bits32)
                             /\ \A i \in 1 .. j - 1 : ext[i] = MaxOf(Bits32)

\* ext is oldext incremented by 1: the value, and digit by digit
IncrementedByOne(K, oldext, ext) ==
  /\ ExtValue(K, ext) = (ExtValue(K, oldext) + 1) % 2^(Bits32 * K)
  /\ \A i \in 1 .. K :
       ext[i] = IF i < FirstNotMax(K, oldext) THEN 0
                ELSE IF i = FirstNotMax(K, oldext) THEN oldext[i] + 1
                ELSE oldext[i]

\* C12: incrementing the extension array by 1 (ext_add(1) of PCG32K, the
\* carry loop of PCG32X) adds exactly 1 modulo 2^(32 K) to the little-endian
\* value of the array, the carry stops at the first digit that does not
\* overflow, the digits above it are unchanged, and ext_add leaves the
\* state unchanged.
C12_ExtAddIsCounter ==
  /\ (pcgk.last = "ext_add" /\ pcgk.K >= 1) =>
        /\ IncrementedByOne(pcgk.K, pcgk.oldext, pcgk.ext)
        /\ pcgk.state = pcgk.old
  /\ (pcgk.last = "next" /\ pcgk.kind = "PCG32X" /\ pcgk.K >= 1 /\ pcgk.state = 0) =>
        IncrementedByOne(pcgk.K, pcgk.oldext, pcgk.ext)

\* ext_add(1) on [MAX, MAX, 0] has given [0, 0, 1]
C12_Witness ==
  /\ pcgk.last = "ext_add"
  /\ pcgk.K = 3
  /\ pcgk.oldext = <<MaxOf(Bits32), MaxOf(Bits32), 0>>
  /\ pcgk.ext = <<0, 0, 1>>

\* C13: with K = 0 next_u32 of the extended generator never fails, returns
\* permute(state) of the state before the call and advances the state by
\* one step.
C13_KZeroIsBasic ==
  (pcgk.last = "next" /\ pcgk.K = 0) =>
    /\ ~pcgk.panic
    /\ pcgk.out = xsh_rr_u64_to_u32(pcgk.old)
    /\ pcgk.state = lcg64_step(PCG_MUL_64, pcgk.inc, pcgk.old)
    /\ pcgk.ext = pcgk.oldext

(***************************************************************************)
(* lib.rs BoundedRandU32 and BoundedRandU16, dice.rs, gen32.rs: bounded    *)
(* sampling.  A constructor yields [tag, count, threshold], the tag being  *)
(* "Self" with a descriptor, "None", or "panic" for a call that panics.    *)
(***************************************************************************)
None == [some |-> FALSE, val |-> 0]
Some(v) == [some |-> TRUE, val |-> v]
Panicked == [tag |-> "panic", count |-> 0, threshold |-> 0]
NoDescriptor == [tag |-> "None", count |-> 0, threshold |-> 0]
Descriptor(count, threshold) == [tag |-> "Self", count |-> count, threshold |-> threshold]

\* the width of the sampler's word: u32 for BoundedRandU32, u16 for BoundedRandU16
BrBits(ty) == IF ty = "U16" THEN Bits16 ELSE Bits32

\* a constructor that takes the threshold from MAX instead of 2^W
BoundedRand_new_max(ty, count) ==
  IF count = 0 THEN Panicked
  ELSE Descriptor(count, MaxOf(BrBits(ty)) % count)

\* BoundedRandU32::new, BoundedRandU16::new: count.wrapping_neg() % count,
\* a remainder by zero panics
BoundedRand_new(ty, count) ==
  IF count = 0 THEN Panicked
  ELSE Descriptor(count, wrapping_neg(BrBits(ty), count) % count)

\* a try_new whose test lets zero through
BoundedRand_try_new_ge(ty, count) ==
  IF count >= 0 THEN BoundedRand_new(ty, count) ELSE NoDescriptor

\* BoundedRandU32::try_new, BoundedRandU16::try_new
BoundedRand_try_new(ty, count) ==
  IF count > 0 THEN BoundedRand_new(ty, count) ELSE NoDescriptor

\* StandardDie::new
StandardDie_new(sides) == BoundedRand_new("U32", sides)

\* ExplodingDie::new
ExplodingDie_new(sides) == StandardDie_new(sides)

\* a place_in_range that also rejects a low part equal to the threshold
place_in_range_le(ty, d, val) ==
  LET bits == BrBits(ty)
      mul == wrapping_mul(2 * bits, val, d.count)
      low_part == mul % 2^bits
  IN  IF low_part <= d.threshold THEN None ELSE Some((mul \div 2^bits) % 2^bits)

\* a place_in_range that returns the low half of the product
place_in_range_low(ty, d, val) ==
  LET bits == BrBits(ty)
      mul == wrapping_mul(2 * bits, val, d.count)
      low_part == mul % 2^bits
  IN  IF low_part < d.threshold THEN None ELSE Some(low_part)

\* BoundedRandU32::place_in_range (the product in u64) and
\* BoundedRandU16::place_in_range (the product in u32)
place_in_range(ty, d, val) ==
  LET bits == BrBits(ty)
      mul == wrapping_mul(IF ty = "U16" THEN Bits32 ELSE Bits64, val, d.count)
      low_part == mul % 2^bits
  IN  IF low_part < d.threshold THEN None ELSE Some((mul \div 2^bits) % 2^bits)

\* place_in_range, its debug assertion: ((mul >> 32) as u32) < self.count(),
\* evaluated when the word is accepted
place_in_range_assertion(ty, d, val) ==
  LET bits == BrBits(ty)
      mul == wrapping_mul(IF ty = "U16" THEN Bits32 ELSE Bits64, val, d.count)
  IN  place_in_range(ty, d, val).some => ((mul \div 2^bits) % 2^bits) < d.count

\* sample: the closure f yields ws[i], ws[i + 1], ...; the result and the
\* number of words drawn, more being set when ws ends before a word is accepted
RECURSIVE sample_from(_, _, _, _)
sample_from(ty, d, ws, i) ==
  IF i > Len(ws) THEN [out |-> 0, used |-> Len(ws), more |-> TRUE, panic |-> FALSE]
  ELSE LET output == place_in_range(ty, d, ws[i])
       IN  IF output.some THEN [out |-> output.val, used |-> i, more |-> FALSE, panic |-> FALSE]
           ELSE sample_from(ty, d, ws, i + 1)

sample(ty, d, ws) == sample_from(ty, d, ws, 1)

\* Gen32::next_bounded, the loop while low < threshold; next_u32 yields ws[i]
RECURSIVE next_bounded_loop(_, _, _, _, _)
next_bounded_loop(b, threshold, ws, i, mul) ==
  IF (mul % 2^Bits32) < threshold
  THEN IF i > Len(ws) THEN [out |-> 0, used |-> Len(ws), more |-> TRUE, panic |-> FALSE]
       ELSE next_bounded_loop(b, threshold, ws, i + 1, wrapping_mul(Bits64, b, ws[i]))
  ELSE [out |-> (mul \div 2^Bits32) % 2^Bits32, used |-> i - 1, more |-> FALSE,
        panic |-> FALSE]

\* a next_bounded that rejects every word whose low half is below b
next_bounded_strict(b, ws) ==
  IF b = 0 THEN [out |-> 0, used |-> 0, more |-> FALSE, panic |-> TRUE]
  ELSE IF Len(ws) = 0 THEN [out |-> 0, used |-> 0, more |-> TRUE, panic |-> FALSE]
  ELSE next_bounded_loop(b, b, ws, 2, wrapping_mul(Bits64, b, ws[1]))

\* Gen32::next_bounded(b): the assertion comes before the first next_u32
next_bounded(b, ws) ==
  IF b = 0 THEN [out |-> 0, used |-> 0, more |-> FALSE, panic |-> TRUE]
  ELSE IF Len(ws) = 0 THEN [out |-> 0, used |-> 0, more |-> TRUE, panic |-> FALSE]
  ELSE LET mul == wrapping_mul(Bits64, b, ws[1])
           low == mul % 2^Bits32
       IN  IF low < b
           THEN next_bounded_loop(b, wrapping_neg(Bits32, b) % b, ws, 2, mul)
           ELSE [out |-> (mul \div 2^Bits32) % 2^Bits32, used |-> 1, more |-> FALSE,
                 panic |-> FALSE]

\* the largest number of words a closure or generator hands to one call
MaxDraws == 3

\* the words a closure or generator yields
StreamWords(bits) == {0, 1, 2^(bits - 1) + 1, MaxOf(bits)}
Streams(bits) == UNION {[1 .. n -> StreamWords(bits)] : n \in 1 .. MaxDraws}

BrInit ==
  /\ br = BrIdle
  /\ walk = WalkIdle /\ comp = CompIdle /\ pcg = PcgIdle /\ pcgk = PcgkIdle /\ fl = FlIdle /\ pair = PairIdle /\ os = OsIdle /\ per = PerIdle /\ die = DieIdle /\ seq = SeqIdle /\ ex = ExIdle /\ sh = ShIdle

\* the record of a constructor call and of what it returned
Constructed(ty, how, arg, d) ==
  [ty |-> ty, how |-> how, arg |-> arg,
   valid |-> d.tag = "Self", count |-> d.count, threshold |-> d.threshold,
   panic |-> d.tag = "panic", op |-> "none", res |-> None, used |-> 0, ws |-> <<>>]

\* BoundedRandU32::new(count), BoundedRandU16::new(count)
BrNew(ty, count) ==
  /\ br.ty = "none"
  /\ br' = Constructed(ty, "new", count, BoundedRand_new(ty, count))
  /\ UNCHANGED varsButBr

\* BoundedRandU32::try_new(count), BoundedRandU16::try_new(count)
BrTryNew(ty, count) ==
  /\ br.ty = "none"
  /\ br' = Constructed(ty, "try_new", count, BoundedRand_try_new(ty, count))
  /\ UNCHANGED varsButBr

\* StandardDie::new(sides)
BrStandardDie(sides) ==
  /\ br.ty = "none"
  /\ br' = Constructed("U32", "StandardDie", sides, StandardDie_new(sides))
  /\ UNCHANGED varsButBr

\* ExplodingDie::new(sides)
BrExplodingDie(sides) ==
  /\ br.ty = "none"
  /\ br' = Constructed("U32", "ExplodingDie", sides, ExplodingDie_new(sides))
  /\ UNCHANGED varsButBr

\* the descriptor a method is called on
Desc == Descriptor(br.count, br.threshold)

\* d.count()
BrCount ==
  /\ br.valid
  /\ br' = [br EXCEPT !.op = "count", !.res = Some(br.count), !.used = 0]
  /\ UNCHANGED varsButBr

\* d.place_in_range(val), in a build with debug assertions or without
BrPlaceInRange(val, debug) ==
  /\ br.valid
  /\ ~br.panic
  /\ LET failed == debug /\ ~place_in_range_assertion(br.ty, Desc, val)
     IN  br' = [br EXCEPT !.op = "place_in_range",
                         !.res = IF failed THEN None ELSE place_in_range(br.ty, Desc, val),
                         !.panic = failed, !.used = 0]
  /\ UNCHANGED varsButBr

\* d.sample(f), f yielding the words ws of which one is accepted
BrSample(ws) ==
  /\ br.valid
  /\ LET r == sample(br.ty, Desc, ws)
     IN  /\ ~r.more
         /\ br' = [br EXCEPT !.op = "sample", !.res = Some(r.out), !.used = r.used]
  /\ UNCHANGED varsButBr

\* g.next_bounded(b), g yielding the words ws
BrNextBounded(b, ws) ==
  /\ br.ty = "none"
  /\ LET r == next_bounded(b, ws)
     IN  /\ ~r.more
         /\ br' = [br EXCEPT !.ty = "Gen32", !.how = "next_bounded", !.arg = b,
                             !.panic = r.panic, !.op = "next_bounded",
                             !.res = IF r.panic THEN None ELSE Some(r.out),
                             !.used = r.used, !.ws = ws]
  /\ UNCHANGED varsButBr

\* the next_bounded calls still to be made: one, on a fresh generator
BrCallsLeft == IF br.ty = "none" THEN 1 ELSE 0

BrNext ==
  \/ \E ty \in {"U32", "U16"} : \E count \in Word(BrBits(ty)) : BrNew(ty, count)
  \/ \E ty \in {"U32", "U16"} : \E count \in Word(BrBits(ty)) : BrTryNew(ty, count)
  \/ \E sides \in Word(Bits32) : BrStandardDie(sides)
  \/ \E sides \in Word(Bits32) : BrExplodingDie(sides)
  \/ BrCount
  \/ \E val \in Word(BrBits(br.ty)), debug \in BOOLEAN : BrPlaceInRange(val, debug)
  \/ \E ws \in Streams(BrBits(br.ty)) : BrSample(ws)
  \/ \E call \in 1 .. BrCallsLeft :
       \E b \in Word(Bits32), ws \in Streams(Bits32) : BrNextBounded(b, ws)

SpecBr == BrInit /\ [][BrNext]_vars

\* the raw words place_in_range maps to r
RawWordsTo(r) == {val \in Word(BrBits(br.ty)) : place_in_range(br.ty, Desc, val) = r}

\* C7: for every count > 0 of either sampler, every value of 0..count is the
\* result of place_in_range for exactly floor(2^W / count) raw words, and
\* exactly threshold raw words are rejected.
C7_ExactlyUnbiased ==
  br.valid =>
    /\ \A v \in 0 .. br.count - 1 :
         Cardinality(RawWordsTo(Some(v))) = 2^BrBits(br.ty) \div br.count
    /\ Cardinality(RawWordsTo(None)) = br.threshold

\* a descriptor whose count does not divide 2^W, on which a word was rejected
C7_Witness ==
  /\ br.valid
  /\ br.ty = "U32"
  /\ br.threshold > 1
  /\ br.op = "place_in_range"
  /\ br.res = None

\* C8: every descriptor new or try_new produced has count > 0 and
\* threshold = (2^W - count) mod count = 2^W mod count < count, and no
\* operation on it changes count or threshold.
C8_DescriptorInvariant ==
  br.valid =>
    /\ br.count > 0
    /\ br.count = br.arg
    /\ br.threshold = (2^BrBits(br.ty) - br.arg) % br.arg
    /\ br.threshold = 2^BrBits(br.ty) % br.arg
    /\ br.threshold < br.count

\* a descriptor with a nonzero threshold after a sample that rejected a word
C8_Witness ==
  /\ br.valid
  /\ br.how = "try_new"
  /\ br.threshold > 0
  /\ br.op = "sample"
  /\ br.used > 1

\* C9: new(0) of both samplers, StandardDie::new(0) and ExplodingDie::new(0)
\* panic, try_new(0) returns None and try_new(c) for c > 0 returns Some, and
\* next_bounded(0) panics before it draws a word.
C9_ZeroNeverAccepted ==
  /\ (br.how \in {"new", "StandardDie", "ExplodingDie"} /\ br.arg = 0)
       => (br.panic /\ ~br.valid)
  /\ br.how = "try_new" => (~br.panic /\ (br.valid <=> br.arg > 0))
  /\ (br.how = "next_bounded" /\ br.arg = 0) => (br.panic /\ br.used = 0)
  /\ br.panic => br.arg = 0

\* try_new(0) has returned None
C9_Witness ==
  /\ br.how = "try_new"
  /\ br.ty = "U16"
  /\ br.arg = 0
  /\ ~br.valid
  /\ ~br.panic

(***************************************************************************)
(* formulas.rs, free_utils.rs, gen32.rs, old.rs: the unit-range floats.    *)
(* A float of the scaled width has one sign bit, ExpBits exponent bits and *)
(* the remaining bits of mantissa; the words a closure or generator yields *)
(* are ws[1], ws[2], ...                                                   *)
(***************************************************************************)
RECURSIVE Or(_, _)
Or(a, b) ==
  IF a = 0 THEN b
  ELSE IF b = 0 THEN a
  ELSE 2 * Or(a \div 2, b \div 2) + (IF a % 2 = 1 \/ b % 2 = 1 THEN 1 ELSE 0)

RECURSIVE trailing_zeros(_, _)
trailing_zeros(bits, x) ==
  IF x = 0 THEN bits
  ELSE IF x % 2 = 1 THEN 0
  ELSE 1 + trailing_zeros(bits - 1, x \div 2)

\* the float formats: bit_width, num_mantissa_bits and exponent_bias of
\* f32 (32, 23, 127) and f64 (64, 52, 1023)
FloatWidth(fmt) == IF fmt = "f32" THEN Bits32 ELSE Bits64
ExpBits(fmt) == IF fmt = "f32" THEN Bits32 \div 2 ELSE Bits32 \div 2 + 1
MantissaBits(fmt) == FloatWidth(fmt) - 1 - ExpBits(fmt)
ExponentBias(fmt) == 2^(ExpBits(fmt) - 1) - 1

\* next_binary_exp_distr32 of formulas.rs, drawing from ws[i] on: the value
\* (a u32), the index of the next word to draw, more when ws ends before a
\* nonzero word, and overflow when extra * 32 + r.trailing_zeros() does not
\* fit a u32
RECURSIVE next_binary_exp_distr32(_, _, _)
next_binary_exp_distr32(ws, i, extra) ==
  IF i > Len(ws) THEN [val |-> 0, next |-> i, more |-> TRUE, overflow |-> FALSE]
  ELSE IF ws[i] = 0 THEN next_binary_exp_distr32(ws, i + 1, extra + 1)
  ELSE LET sum == extra * Bits32 + trailing_zeros(Bits32, ws[i])
       IN  [val |-> sum % 2^Bits32, next |-> i + 1, more |-> FALSE,
            overflow |-> sum > MaxOf(Bits32)]

\* a recursive version that adds nothing for a zero word
RECURSIVE free_utils_next_binary_exp_distr32_noadd(_, _)
free_utils_next_binary_exp_distr32_noadd(ws, i) ==
  IF i > Len(ws) THEN [val |-> 0, next |-> i, more |-> TRUE, overflow |-> FALSE]
  ELSE IF ws[i] > 0
  THEN [val |-> trailing_zeros(Bits32, ws[i]), next |-> i + 1, more |-> FALSE,
        overflow |-> FALSE]
  ELSE free_utils_next_binary_exp_distr32_noadd(ws, i + 1)

\* next_binary_exp_distr32 of free_utils.rs: 32 + next_binary_exp_distr32(g)
\* for a zero word
RECURSIVE free_utils_next_binary_exp_distr32(_, _)
free_utils_next_binary_exp_distr32(ws, i) ==
  IF i > Len(ws) THEN [val |-> 0, next |-> i, more |-> TRUE, overflow |-> FALSE]
  ELSE IF ws[i] > 0
  THEN [val |-> trailing_zeros(Bits32, ws[i]), next |-> i + 1, more |-> FALSE,
        overflow |-> FALSE]
  ELSE LET t == free_utils_next_binary_exp_distr32(ws, i + 1)
       IN  IF t.more THEN t
           ELSE [val |-> (Bits32 + t.val) % 2^Bits32, next |-> t.next, more |-> FALSE,
                 overflow |-> t.overflow \/ Bits32 + t.val > MaxOf(Bits32)]

\* the loop while exponent < -exponent_bias || exponent > 0; an overflow in
\* next_binary_exp_distr32 panics in a build with debug assertions
RECURSIVE regenerate_exponent(_, _, _, _, _, _)
regenerate_exponent(fmt, ws, i, increment_exponent, exponent, debug) ==
  IF exponent < -ExponentBias(fmt) \/ exponent > 0
  THEN LET d == next_binary_exp_distr32(ws, i, 0)
       IN  IF d.more \/ (debug /\ d.overflow)
           THEN [exponent |-> 0, next |-> d.next, more |-> d.more, overflow |-> d.overflow]
           ELSE regenerate_exponent(fmt, ws, d.next, increment_exponent,
                                    -1 + increment_exponent - d.val, debug)
  ELSE [exponent |-> exponent, next |-> i, more |-> FALSE, overflow |-> FALSE]

\* a synthesizer that takes the sign from the raw word whatever signed says
ieee754_random_signed(fmt, ws, signed, debug) ==
  LET bit_width == FloatWidth(fmt)
      lead == IF fmt = "f32" THEN 1 ELSE 2
      r == IF fmt = "f32" THEN ws[1] ELSE ws[1] * 2^Bits32 + ws[2]
      mantissa == r \div 2^(bit_width - MantissaBits(fmt))
      exponent == IF mantissa = 0 /\ (r \div 2) % 2 = 1 THEN 0 ELSE -1
  IN  IF Len(ws) < lead THEN [bits |-> 0, used |-> Len(ws), more |-> TRUE, panic |-> FALSE]
      ELSE [bits |-> Or(Or((r * 2^(bit_width - 1)) % 2^bit_width,
                           (exponent + ExponentBias(fmt)) * 2^MantissaBits(fmt)),
                        mantissa),
            used |-> lead, more |-> FALSE, panic |-> FALSE]

\* ieee754_random_f32 and ieee754_random_f64 of formulas.rs (f32 the same
\* in free_utils.rs): the bit pattern given to from_bits and the number of
\* words drawn; debug is a build with debug assertions
ieee754_random(fmt, ws, signed, debug) ==
  LET bit_width == FloatWidth(fmt)
      exponent_bias == ExponentBias(fmt)
      num_mantissa_bits == MantissaBits(fmt)
      num_rest_bits == bit_width - num_mantissa_bits - 1 - (IF signed THEN 1 ELSE 0)
      lead == IF fmt = "f32" THEN 1 ELSE 2
      r == IF fmt = "f32" THEN ws[1] ELSE Or(ws[1] * 2^Bits32, ws[2])
      mantissa == r \div 2^(bit_width - num_mantissa_bits)
      sign_mask == IF signed THEN (r * 2^(bit_width - 1)) % 2^bit_width ELSE 0
      rand_bit == IF signed THEN (r \div 2) % 2 = 1 ELSE r % 2 = 1
      rest_bits == IF signed THEN (r \div 4) % 2^num_rest_bits
                   ELSE (r \div 2) % 2^num_rest_bits
      increment_exponent == IF mantissa = 0 /\ rand_bit THEN 1 ELSE 0
      d == next_binary_exp_distr32(ws, lead + 1, 0)
      computed_rest_bits == IF rest_bits > 0 THEN trailing_zeros(bit_width, rest_bits)
                            ELSE num_rest_bits + d.val
      first == IF rest_bits > 0 THEN lead + 1 ELSE d.next
      e == regenerate_exponent(fmt, ws, first, increment_exponent,
                               -1 + increment_exponent - computed_rest_bits, debug)
      final_exponent == ((e.exponent + exponent_bias) * 2^num_mantissa_bits) % 2^bit_width
  IN  IF Len(ws) < lead THEN [bits |-> 0, used |-> Len(ws), more |-> TRUE, panic |-> FALSE]
      ELSE IF debug /\ (num_rest_bits < 0 \/ Bits32 # bit_width)
      THEN [bits |-> 0, used |-> lead, more |-> FALSE, panic |-> TRUE]
      ELSE IF rest_bits = 0 /\ d.more
      THEN [bits |-> 0, used |-> Len(ws), more |-> TRUE, panic |-> FALSE]
      ELSE IF debug /\ rest_bits = 0 /\ d.overflow
      THEN [bits |-> 0, used |-> d.next - 1, more |-> FALSE, panic |-> TRUE]
      ELSE IF e.more THEN [bits |-> 0, used |-> Len(ws), more |-> TRUE, panic |-> FALSE]
      ELSE IF debug /\ e.overflow
      THEN [bits |-> 0, used |-> e.next - 1, more |-> FALSE, panic |-> TRUE]
      ELSE [bits |-> Or(Or(sign_mask, final_exponent), mantissa), used |-> e.next - 1,
            more |-> FALSE, panic |-> FALSE]

\* Gen32::next_f32_unit (gen32.rs and old.rs)
next_f32_unit(ws, debug) == ieee754_random("f32", ws, TRUE, debug)

\* Gen32::next_f32_signed_unit (gen32.rs and old.rs)
next_f32_signed_unit(ws, debug) == ieee754_random("f32", ws, FALSE, debug)

\* the largest number of words drawn after the words that make up r
MaxFloatTail == 2

\* the words drawn after r: only their trailing zeros matter
TailWords == {0, 1, 2^(Bits32 - 1)}

\* the streams of a call: lead words of any value, then up to MaxFloatTail more
FloatStreams(lead) ==
  {h \o t : h \in [1 .. lead -> Word(Bits32)],
            t \in UNION {[1 .. n -> TailWords] : n \in 0 .. MaxFloatTail}}

FlInit ==
  /\ fl = FlIdle
  /\ walk = WalkIdle /\ comp = CompIdle /\ pcg = PcgIdle /\ pcgk = PcgkIdle /\ br = BrIdle /\ pair = PairIdle /\ os = OsIdle /\ per = PerIdle /\ die = DieIdle /\ seq = SeqIdle /\ ex = ExIdle /\ sh = ShIdle

\* the record of a call with the words ws and the result r
FlCalled(fn, signed, debug, ws, r) ==
  [fn |-> fn, signed |-> signed, debug |-> debug, ws |-> ws, panic |-> r.panic,
   bits |-> r.bits]

\* ieee754_random_f32(f, signed), f yielding exactly the words ws
FlRandomF32(signed, debug, ws) ==
  /\ fl.fn = "none"
  /\ LET r == ieee754_random("f32", ws, signed, debug)
     IN  /\ ~r.more
         /\ r.used = Len(ws)
         /\ fl' = FlCalled("ieee754_random_f32", signed, debug, ws, r)
  /\ UNCHANGED varsButFl

\* ieee754_random_f64(f, signed), f yielding exactly the words ws
FlRandomF64(signed, debug, ws) ==
  /\ fl.fn = "none"
  /\ LET r == ieee754_random("f64", ws, signed, debug)
     IN  /\ ~r.more
         /\ r.used = Len(ws)
         /\ fl' = FlCalled("ieee754_random_f64", signed, debug, ws, r)
  /\ UNCHANGED varsButFl

\* g.next_f32_unit(), g yielding exactly the words ws
FlNextF32Unit(debug, ws) ==
  /\ fl.fn = "none"
  /\ LET r == next_f32_unit(ws, debug)
     IN  /\ ~r.more
         /\ r.used = Len(ws)
         /\ fl' = FlCalled("next_f32_unit", TRUE, debug, ws, r)
  /\ UNCHANGED varsButFl

\* g.next_f32_signed_unit(), g yielding exactly the words ws
FlNextF32SignedUnit(debug, ws) ==
  /\ fl.fn = "none"
  /\ LET r == next_f32_signed_unit(ws, debug)
     IN  /\ ~r.more
         /\ r.used = Len(ws)
         /\ fl' = FlCalled("next_f32_signed_unit", FALSE, debug, ws, r)
  /\ UNCHANGED varsButFl

\* the calls still to be made: one call is made on a fresh generator
FlCallsLeft == IF fl.fn = "none" THEN 1 ELSE 0

\* the streams of a call that draws its raw word with next_u32, with next_u64
FloatStreams32 == FloatStreams(1)
FloatStreams64 == FloatStreams(2)

FlNext ==
  \/ \E call \in 1 .. FlCallsLeft :
       \E signed \in BOOLEAN, debug \in BOOLEAN, ws \in FloatStreams32 :
         FlRandomF32(signed, debug, ws)
  \/ \E call \in 1 .. FlCallsLeft :
       \E signed \in BOOLEAN, debug \in BOOLEAN, ws \in FloatStreams64 :
         FlRandomF64(signed, debug, ws)
  \/ \E call \in 1 .. FlCallsLeft :
       \E debug \in BOOLEAN, ws \in FloatStreams32 : FlNextF32Unit(debug, ws)
  \/ \E call \in 1 .. FlCallsLeft :
       \E debug \in BOOLEAN, ws \in FloatStreams32 : FlNextF32SignedUnit(debug, ws)

SpecFl == FlInit /\ [][FlNext]_vars

\* the fields of the bit pattern the last call returned
FlFmt == IF fl.fn = "ieee754_random_f64" THEN "f64" ELSE "f32"
FlSign == fl.bits \div 2^(FloatWidth(FlFmt) - 1)
FlExponent == (fl.bits \div 2^MantissaBits(FlFmt)) % 2^ExpBits(FlFmt)
FlMantissa == fl.bits % 2^MantissaBits(FlFmt)

C15_UnitIsUnsigned ==
  /\ (fl.fn = "next_f32_unit" /\ ~fl.panic) =>
        /\ FlSign = 0
        /\ FlExponent <= ExponentBias("f32")
        /\ FlExponent = ExponentBias("f32") => FlMantissa = 0
  /\ (fl.fn = "next_f32_signed_unit" /\ ~fl.panic) =>
        /\ FlExponent <= ExponentBias("f32")
        /\ FlExponent = ExponentBias("f32") => FlMantissa = 0

(***************************************************************************)
(* pcg.rs PCG32::seed, pcg32.rs Pcg32::seed and the conversions between a  *)
(* Pcg32 and [u64; 2]: two generators made the same way, called the same   *)
(* way.  A generator is [state, inc].                                      *)
(***************************************************************************)
\* (inc << 1) | 1 in u64
OddInc(inc) == Or((inc * 2) % 2^Bits64, 1)

\* PCG32::seed(seed, inc)
PCG32_seed(seed, inc) ==
  [state |-> lcg64_step(PCG_MUL_64, OddInc(inc), seed), inc |-> OddInc(inc)]

\* Pcg32::seed(seed, inc)
Pcg32_seed(seed, inc) ==
  LET inc1 == OddInc(inc)
      state1 == pcg_core_state64(0, inc1)
      state2 == wrapping_add(Bits64, state1, seed)
  IN  [state |-> pcg_core_state64(state2, inc1), inc |-> inc1]

\* a conversion from [u64; 2] that seeds with the two words
Pcg32_from_seeding(arr) == Pcg32_seed(arr[1], arr[2])

\* impl From<[u64; 2]> for Pcg32
Pcg32_from(arr) == [state |-> arr[1], inc |-> arr[2]]

\* impl From<Pcg32> for [u64; 2]
Pcg32_into(g) == <<g.state, g.inc>>

\* the largest number of operations on one pair of generators
MaxPairOps == 3

PairSeeds == {0, 1, 2^Bits32 + 3, MaxOf(Bits64)}
PairIncs == {0, 1, 2^(Bits64 - 1), MaxOf(Bits64)}
PairDeltas == {2, MaxOf(Bits64)}

SeedOf(kind, seed, inc) == IF kind = "PCG32" THEN PCG32_seed(seed, inc) ELSE Pcg32_seed(seed, inc)

\* a is seeded; b is seeded the same way again
PairInit ==
  /\ \E kind \in {"PCG32", "Pcg32"}, seed \in PairSeeds, inc \in PairIncs :
       pair = [kind |-> kind, a |-> SeedOf(kind, seed, inc), b |-> SeedOf(kind, seed, inc),
               outa |-> 0, outb |-> 0, ops |-> 0, trips |-> 0, last |-> "seed"]
  /\ walk = WalkIdle /\ comp = CompIdle /\ pcg = PcgIdle /\ pcgk = PcgkIdle /\ br = BrIdle /\ fl = FlIdle /\ os = OsIdle /\ per = PerIdle /\ die = DieIdle /\ seq = SeqIdle /\ ex = ExIdle /\ sh = ShIdle

\* a.next_u32() and b.next_u32()
PairNextU32 ==
  /\ pair.kind # "none"
  /\ pair.ops < MaxPairOps
  /\ LET ra == NextU32Of(pair.kind, pair.a.state, pair.a.inc)
         rb == NextU32Of(pair.kind, pair.b.state, pair.b.inc)
     IN  pair' = [pair EXCEPT !.a.state = ra.state, !.b.state = rb.state,
                              !.outa = ra.out, !.outb = rb.out,
                              !.ops = pair.ops + 1, !.last = "next"]
  /\ UNCHANGED varsButPair

\* a.jump(delta) and b.jump(delta)
PairJump(delta) ==
  /\ pair.kind # "none"
  /\ pair.ops < MaxPairOps
  /\ pair' = [pair EXCEPT !.a.state = JumpOf(pair.kind, pair.a.state, pair.a.inc, delta),
                          !.b.state = JumpOf(pair.kind, pair.b.state, pair.b.inc, delta),
                          !.ops = pair.ops + 1, !.last = "jump"]
  /\ UNCHANGED varsButPair

\* b = Pcg32::from(<[u64; 2]>::from(b))
PairRoundTrip ==
  /\ pair.kind = "Pcg32"
  /\ pair.ops < MaxPairOps
  /\ pair' = [pair EXCEPT !.b = Pcg32_from(Pcg32_into(pair.b)),
                          !.ops = pair.ops + 1, !.trips = pair.trips + 1,
                          !.last = "round_trip"]
  /\ UNCHANGED varsButPair

PairNext ==
  \/ PairNextU32
  \/ \E delta \in PairDeltas : PairJump(delta)
  \/ PairRoundTrip

SpecPair == PairInit /\ [][PairNext]_vars

ChunkRetries == 10

\* the largest request to the OS, in bytes (MAX_URANDOM_REQUEST_SIZE on
\* unix, u32::MAX on windows), and the largest buffer
MaxRequest == 2
MaxBuf == 3

\* the buffer of Pcg32::seed_from_os: 2 * size_of::<u64>() bytes
SeedBytes == 2 * (Bits64 \div 8)

Min(a, b) == IF a < b THEN a ELSE b

OsInit ==
  /\ os = OsIdle
  /\ walk = WalkIdle /\ comp = CompIdle /\ pcg = PcgIdle /\ pcgk = PcgkIdle /\ br = BrIdle /\ fl = FlIdle /\ pair = PairIdle /\ per = PerIdle /\ die = DieIdle /\ seq = SeqIdle /\ ex = ExIdle /\ sh = ShIdle

\* fill_byte_buffer_from_os_random returns result to its caller:
\* Pcg32::seed_from_os drops it (let _ =) and returns the seeded generator
OsReturn(o, result) ==
  [o EXCEPT !.pc = "done", !.result = result, !.failed = result = "Err",
            !.gen = o.caller = "seed_from_os"]

\* the loop over buf.chunks_mut(..) takes the next chunk, or the function
\* returns Ok(()) when no byte is left
OsNextChunk(o) ==
  IF o.rest = 0 THEN OsReturn([o EXCEPT !.chunk = 0], "Ok")
  ELSE [o EXCEPT !.pc = "loop", !.chunk = Min(o.rest, MaxRequest),
                 !.rest = o.rest - Min(o.rest, MaxRequest),
                 !.chunk_retries = ChunkRetries]

\* fill_byte_buffer_from_os_random(buf) is entered with len bytes to fill,
\* called directly or by Pcg32::seed_from_os
OsBegin(caller, target, len) ==
  /\ os.pc = "none"
  /\ caller = "seed_from_os" => len = SeedBytes
  /\ os' = OsNextChunk([os EXCEPT !.caller = caller, !.target = target, !.rest = len])
  /\ UNCHANGED varsButOs

\* unix: one turn of the loop 'getrandom, the OS call returning
\* bytes_randomized: negative for a failure, else the number of bytes it
\* filled, at least one and at most the bytes asked for
OsCallUnix(bytes_randomized) ==
  /\ os.pc = "loop"
  /\ os.target = "unix"
  /\ bytes_randomized # 0
  /\ bytes_randomized <= os.chunk
  /\ os' = IF bytes_randomized < 0
           THEN IF os.chunk_retries - 1 = 0
                THEN OsReturn([os EXCEPT !.chunk_retries = 0, !.streak = os.streak + 1], "Err")
                ELSE [os EXCEPT !.chunk_retries = os.chunk_retries - 1,
                                !.streak = os.streak + 1]
           ELSE IF os.chunk - bytes_randomized = 0
                THEN OsNextChunk([os EXCEPT !.chunk = 0, !.streak = 0])
                ELSE [os EXCEPT !.chunk = os.chunk - bytes_randomized, !.streak = 0]
  /\ UNCHANGED varsButOs

\* windows: one turn of the loop 'bcrypt, BCryptGenRandom returning
\* STATUS_SUCCESS or not
OsCallWindows(success) ==
  /\ os.pc = "loop"
  /\ os.target = "windows"
  /\ os' = IF success
           THEN OsNextChunk([os EXCEPT !.chunk = 0, !.streak = 0])
           ELSE IF os.chunk_retries - 1 = 0
                THEN OsReturn([os EXCEPT !.chunk_retries = 0, !.streak = os.streak + 1], "Err")
                ELSE [os EXCEPT !.chunk_retries = os.chunk_retries - 1,
                                !.streak = os.streak + 1]
  /\ UNCHANGED varsButOs

\* PCG32::from_getrandom: getrandom(..)? then Ok(Self::new(..))
OsPCG32FromGetrandom(ok) ==
  /\ os.pc = "none"
  /\ os' = [os EXCEPT !.caller = "PCG32::from_getrandom", !.target = "getrandom",
                      !.pc = "done", !.failed = ~ok, !.gen = ok,
                      !.result = IF ok THEN "Ok" ELSE "Err"]
  /\ UNCHANGED varsButOs

\* PCG32K::from_getrandom: getrandom(..)? for the state, then
\* scramble_ext_array()? for the array, then Ok(out)
OsPCG32KFromGetrandom(ok_state, ok_ext) ==
  /\ os.pc = "none"
  /\ os' = [os EXCEPT !.caller = "PCG32K::from_getrandom", !.target = "getrandom",
                      !.pc = "done", !.failed = ~ok_state \/ ~ok_ext,
                      !.gen = ok_state /\ ok_ext,
                      !.result = IF ok_state /\ ok_ext THEN "Ok" ELSE "Err"]
  /\ UNCHANGED varsButOs

OsNext ==
  \/ \E caller \in {"fill", "seed_from_os"}, target \in {"unix", "windows"},
        len \in 0 .. MaxBuf : OsBegin(caller, target, len)
  \/ \E bytes_randomized \in -1 .. MaxRequest : OsCallUnix(bytes_randomized)
  \/ \E success \in BOOLEAN : OsCallWindows(success)
  \/ \E ok \in BOOLEAN : OsPCG32FromGetrandom(ok)
  \/ \E ok_state \in BOOLEAN, ok_ext \in BOOLEAN : OsPCG32KFromGetrandom(ok_state, ok_ext)

SpecOs == OsInit /\ [][OsNext]_vars

\* C17: a constructor that seeds from the entropy source, when the source
\* has reported a failure, returns no generator and does not panic.
C17_FailurePropagates ==
  (os.pc = "done" /\ os.caller # "fill" /\ os.failed) => (~os.gen /\ ~os.panic)

\* C18: fill_byte_buffer_from_os_random returns Err only when the failure
\* of the OS call persisted: the last ChunkRetries calls all failed.
C18_ErrOnlyAfterPersistentFailure ==
  (os.pc = "done" /\ os.target \in {"unix", "windows"} /\ os.result = "Err") =>
    os.streak >= ChunkRetries

(***************************************************************************)
(* pcg.rs, the documented periods: a generator is called until its state   *)
(* (for PCG32K: its state and extension array) is the starting one again.  *)
(***************************************************************************)
\* the increments and states a PCG32 is started with
PeriodIncs == 0 .. 15 \cup {2^(Bits64 - 1), 2^(Bits64 - 1) + 1, MaxOf(Bits64) - 1, MaxOf(Bits64)}
PeriodStates == {0, 2^Bits32 + 3}

\* the extended generators PCG32K::<K>::new(state, ext) that are started
PeriodKStarts ==
  {[K |-> 1, state |-> st, ext |-> <<e>>] : st \in {0, 5, MaxOf(Bits64)},
                                            e \in {0, MaxOf(Bits32)}}
    \cup {[K |-> 2, state |-> 1, ext |-> <<MaxOf(Bits32), 0>>]}

\* PCG32::new(state, inc); n counts the next_u32 calls
PeriodInit ==
  /\ \E inc \in PeriodIncs, state \in PeriodStates :
       per = [kind |-> "PCG32", K |-> 0, inc |-> inc, start |-> state, startext |-> <<>>,
              state |-> state, ext |-> <<>>, n |-> 0, adds |-> 0]
  /\ walk = WalkIdle /\ comp = CompIdle /\ pcg = PcgIdle /\ pcgk = PcgkIdle /\ br = BrIdle /\ fl = FlIdle /\ pair = PairIdle /\ os = OsIdle /\ die = DieIdle /\ seq = SeqIdle /\ ex = ExIdle /\ sh = ShIdle

\* PCG32K::<K>::new(state, ext); adds counts the calls that changed ext
PeriodKInit ==
  /\ \E g \in PeriodKStarts :
       per = [kind |-> "PCG32K", K |-> g.K, inc |-> 1, start |-> g.state,
              startext |-> g.ext, state |-> g.state, ext |-> g.ext, n |-> 0, adds |-> 0]
  /\ walk = WalkIdle /\ comp = CompIdle /\ pcg = PcgIdle /\ pcgk = PcgkIdle /\ br = BrIdle /\ fl = FlIdle /\ pair = PairIdle /\ os = OsIdle /\ die = DieIdle /\ seq = SeqIdle /\ ex = ExIdle /\ sh = ShIdle

\* the generator is back where it started
PeriodBack == per.n > 0 /\ per.state = per.start /\ per.ext = per.startext

\* the length of the documented period
PeriodLength == 2^(Bits64 + Bits32 * per.K)

\* g.next_u32() on the PCG32, until it is back at its start
PeriodNextU32 ==
  /\ per.kind = "PCG32"
  /\ ~PeriodBack
  /\ per.n < PeriodLength
  /\ per' = [per EXCEPT !.state = PCG32_next_u32(per.state, per.inc).state,
                        !.n = per.n + 1]
  /\ UNCHANGED varsButPer

\* g.next_u32() on the PCG32K, until it is back at its start
PeriodKNextU32 ==
  /\ per.kind = "PCG32K"
  /\ ~PeriodBack
  /\ per.n < PeriodLength
  /\ LET r == PCG32K_next_u32(per.K, per.state, per.ext)
     IN  per' = [per EXCEPT !.state = r.state, !.ext = r.ext, !.n = per.n + 1,
                            !.adds = per.adds + (IF r.ext # per.ext THEN 1 ELSE 0)]
  /\ UNCHANGED varsButPer

SpecPeriod == PeriodInit /\ [][PeriodNextU32]_vars

SpecPeriodK == PeriodKInit /\ [][PeriodKNextU32]_vars

\* C19: with the fixed multiplier the state of the basic generator first
\* returns to its start after exactly 2^W calls when inc is odd, and after
\* fewer than 2^W calls when inc is even.
C19_PeriodOfBasic ==
  per.kind = "PCG32" =>
    IF per.inc % 2 = 1
    THEN PeriodBack => per.n = 2^Bits64
    ELSE per.n < 2^Bits64

\* a generator with an odd inc is back at its start after 2^W calls
C19_Witness ==
  /\ per.kind = "PCG32"
  /\ per.inc = MaxOf(Bits64)
  /\ PeriodBack
  /\ per.n = 2^Bits64

\* C20: a PCG32K<K> first returns to its starting (state, ext) after exactly
\* 2^(64 + 32 K) calls, the extension array having been advanced
\* 2^(32 K) times.
C20_PeriodOfExtended ==
  (per.kind = "PCG32K" /\ PeriodBack) =>
    /\ per.n = 2^(Bits64 + Bits32 * per.K)
    /\ per.adds = 2^(Bits32 * per.K)

\* a PCG32K<2> is back at its start
C20_Witness ==
  /\ per.kind = "PCG32K"
  /\ per.K = 2
  /\ PeriodBack
  /\ per.n = 2^(Bits64 + Bits32 * 2)

\* C24: place_in_range rejects exactly when the low half of the double-width
\* product val * count is below threshold and otherwise returns the high
\* half, which is below count, so its debug assertion never fails.
C24_PlaceInRange ==
  br.valid =>
    /\ ~br.panic
    /\ \A val \in Word(BrBits(br.ty)) :
         LET r == place_in_range(br.ty, Desc, val)
             low == (val * br.count) % 2^BrBits(br.ty)
             high == (val * br.count) \div 2^BrBits(br.ty)
         IN  /\ (r = None) <=> (low < br.threshold)
             /\ (low >= br.threshold) => (r = Some(high) /\ high < br.count)
             /\ place_in_range_assertion(br.ty, Desc, val)

\* place_in_range has accepted a word on a descriptor that rejects some
C24_Witness ==
  /\ br.valid
  /\ br.threshold > 0
  /\ br.op = "place_in_range"
  /\ br.res.some
  /\ br.res.val = br.count - 1

\* C29: the debug assertions of ieee754_random_f32 and ieee754_random_f64
\* hold on every call: num_rest_bits >= 0, and the size of a u32 times 8
\* is bit_width, so no call panics in a build with debug assertions.
C29_FloatAssertionsHold ==
  fl.fn \in {"ieee754_random_f32", "ieee754_random_f64"} =>
    /\ FloatWidth(FlFmt) - MantissaBits(FlFmt) - 1 - (IF fl.signed THEN 1 ELSE 0) >= 0
    /\ Bits32 = FloatWidth(FlFmt)
    /\ ~fl.panic

\* C27: for every b > 0 and every word stream next_bounded(b) returns what
\* BoundedRandU32::new(b).sample returns on that stream, after the same
\* number of words.
C27_NextBoundedIsSample ==
  (br.how = "next_bounded" /\ br.arg > 0) =>
    LET r == sample("U32", BoundedRand_new("U32", br.arg), br.ws)
    IN  /\ ~br.panic
        /\ ~r.more
        /\ br.res = Some(r.out)
        /\ br.used = r.used

\* next_bounded took the low < b branch, rejected a word and accepted the next
C27_Witness ==
  /\ br.how = "next_bounded"
  /\ br.arg = 6
  /\ br.used = 2
  /\ Len(br.ws) = 3
  /\ br.res.some

(***************************************************************************)
(* gen32.rs (and old.rs) Gen32::shuffle.  A usize is Bits64 bits wide; buf *)
(* is the slice, orig what it held at the call, bound the argument of the  *)
(* last next_bounded call, and panic tells which statement panicked.       *)
(***************************************************************************)
\* the longest slice shuffled
MaxLen == 5

\* buf.swap(a, b), the indices counted from 0
swap(buf, a, b) ==
  [j \in 1 .. Len(buf) |-> IF j = a + 1 THEN buf[b + 1]
                           ELSE IF j = b + 1 THEN buf[a + 1] ELSE buf[j]]

\* the slice and the build
ShInit ==
  /\ \E len \in 0 .. MaxLen, debug \in BOOLEAN :
       sh = [ShIdle EXCEPT !.pc = "call", !.debug = debug, !.orig = [j \in 1 .. len |-> j],
                           !.buf = [j \in 1 .. len |-> j]]
  /\ walk = WalkIdle /\ comp = CompIdle /\ pcg = PcgIdle /\ pcgk = PcgkIdle /\ br = BrIdle /\ fl = FlIdle /\ pair = PairIdle /\ os = OsIdle /\ per = PerIdle /\ die = DieIdle /\ seq = SeqIdle /\ ex = ExIdle

\* shuffle, up to the loop: buf.len() - 1 panics on overflow in a build with
\* overflow checks and wraps without
ShBegin ==
  /\ sh.pc = "call"
  /\ LET len == Len(sh.buf)
         possibility_count == IF len <= MaxOf(Bits32) THEN len ELSE MaxOf(Bits32)
         end == (len - 1) % 2^Bits64
     IN  IF len = 0 /\ sh.debug
         THEN sh' = [sh EXCEPT !.pc = "panicked", !.panic = "buf.len() - 1",
                               !.possibility_count = possibility_count]
         ELSE sh' = [sh EXCEPT !.pc = IF 0 < end THEN "loop" ELSE "returned",
                               !.possibility_count = possibility_count,
                               !.this_index = 0, !.end = end]
  /\ UNCHANGED varsButSh

\* one turn of the loop while this_index < end, the generator yielding
\* exactly the words ws to next_bounded
ShTurn(ws) ==
  /\ sh.pc = "loop"
  /\ LET r == next_bounded(sh.possibility_count, ws)
         offset == r.out
     IN  /\ ~r.more
         /\ r.used = Len(ws)
         /\ IF r.panic
            THEN sh' = [sh EXCEPT !.pc = "panicked", !.panic = "next_bounded",
                                  !.bound = sh.possibility_count]
            ELSE IF sh.this_index + offset >= Len(sh.buf)
            THEN sh' = [sh EXCEPT !.pc = "panicked", !.panic = "swap",
                                  !.bound = sh.possibility_count]
            ELSE sh' = [sh EXCEPT !.buf = swap(sh.buf, sh.this_index,
                                               sh.this_index + offset),
                                  !.bound = sh.possibility_count,
                                  !.possibility_count = sh.possibility_count - 1,
                                  !.this_index = sh.this_index + 1,
                                  !.pc = IF sh.this_index + 1 < sh.end THEN "loop"
                                         ELSE "returned"]
  /\ UNCHANGED varsButSh

\* the words next_bounded may draw: none when it panics at once
ShStreams == Streams(Bits32) \cup {<<>>}

ShNext ==
  \/ ShBegin
  \/ \E ws \in ShStreams : ShTurn(ws)

SpecSh == ShInit /\ [][ShNext]_vars

\* C28: shuffle completes without failing for every slice, the empty one
\* included: no statement panics, every next_bounded call gets a nonzero
\* bound, and the slice it returns is a permutation of the original.
C28_ShuffleCompletes ==
  /\ sh.panic = "no"
  /\ sh.pc # "panicked"
  /\ sh.pc = "loop" => sh.possibility_count > 0
  /\ sh.pc = "returned" =>
       /\ Len(sh.buf) = Len(sh.orig)
       /\ \A x \in 1 .. Len(sh.orig) :
            Cardinality({j \in 1 .. Len(sh.buf) : sh.buf[j] = sh.orig[x]}) = 1

(***************************************************************************)
(* formulas.rs and free_utils.rs next_binary_exp_distr32: the iterative    *)
(* and the recursive version are called on one word stream ws, in a build  *)
(* with overflow checks (debug) or without.                                *)
(***************************************************************************)
\* the longest run of zero words a stream starts with
MaxZeros == 5

\* a run of zero words, a nonzero word, and then nothing or one more word
ExStreams ==
  {[j \in 1 .. z |-> 0] \o <<r>> \o tail :
     z \in 0 .. MaxZeros, r \in 1 .. MaxOf(Bits32), tail \in {<<>>, <<0>>, <<1>>}}

ExInit ==
  /\ \E ws \in ExStreams, debug \in BOOLEAN :
       ex = [ExIdle EXCEPT !.ws = ws, !.debug = debug]
  /\ walk = WalkIdle /\ comp = CompIdle /\ pcg = PcgIdle /\ pcgk = PcgkIdle /\ br = BrIdle /\ fl = FlIdle /\ pair = PairIdle /\ os = OsIdle /\ per = PerIdle /\ die = DieIdle /\ seq = SeqIdle /\ sh = ShIdle

\* what a call returned: an overflow panics in a build with overflow checks
ExResult(r, debug) ==
  [val |-> IF debug /\ r.overflow THEN 0 ELSE r.val, used |-> r.next - 1,
   panic |-> debug /\ r.overflow]

\* formulas::next_binary_exp_distr32(f), f yielding ws
ExIterative ==
  /\ ex.ws # <<>>
  /\ "iter" \notin ex.done
  /\ ex' = [ex EXCEPT !.iter = ExResult(next_binary_exp_distr32(ex.ws, 1, 0), ex.debug),
                      !.done = ex.done \cup {"iter"}]
  /\ UNCHANGED varsButEx

\* free_utils::next_binary_exp_distr32(g), g yielding ws
ExRecursive ==
  /\ ex.ws # <<>>
  /\ "rec" \notin ex.done
  /\ ex' = [ex EXCEPT !.rec = ExResult(free_utils_next_binary_exp_distr32(ex.ws, 1), ex.debug),
                      !.done = ex.done \cup {"rec"}]
  /\ UNCHANGED varsButEx

ExNext == ExIterative \/ ExRecursive

SpecEx == ExInit /\ [][ExNext]_vars

\* the number z of zero words ws starts with, and its first nonzero word
RECURSIVE LeadingZeros(_)
LeadingZeros(ws) == IF ws = <<>> \/ Head(ws) # 0 THEN 0 ELSE 1 + LeadingZeros(Tail(ws))
FirstNonzero(ws) == ws[LeadingZeros(ws) + 1]

sample_turn_skip(ty, d, ws, pos, outs) ==
  LET output == place_in_range(ty, d, ws[pos + 1])
  IN  IF output.some
      THEN [pos |-> pos + 1, outs |-> Append(outs, output.val), pc |-> "returned"]
      ELSE [pos |-> pos + 2, outs |-> outs, pc |-> "loop"]

\* sample, one turn of its loop: f() is called and the word handed to
\* place_in_range; Some(output) returns, None loops
sample_turn(ty, d, ws, pos, outs) ==
  LET output == place_in_range(ty, d, ws[pos + 1])
  IN  IF output.some
      THEN [pos |-> pos + 1, outs |-> Append(outs, output.val), pc |-> "returned"]
      ELSE [pos |-> pos + 1, outs |-> outs, pc |-> "loop"]

\* a descriptor and the fixed word sequence of the closure
SeqInit ==
  /\ \E ty \in {"U32", "U16"} :
       \E count \in 1 .. MaxOf(BrBits(ty)), ws \in Streams(BrBits(ty)) :
         LET d == BoundedRand_new(ty, count)
         IN  seq = [ty |-> ty, count |-> d.count, threshold |-> d.threshold, ws |-> ws,
                    pos |-> 0, outs |-> <<>>, pc |-> "returned"]
  /\ walk = WalkIdle /\ comp = CompIdle /\ pcg = PcgIdle /\ pcgk = PcgkIdle /\ br = BrIdle /\ fl = FlIdle /\ pair = PairIdle /\ os = OsIdle /\ per = PerIdle /\ die = DieIdle /\ ex = ExIdle /\ sh = ShIdle

\* d.sample(f) is called
SeqSample ==
  /\ seq.pc = "returned"
  /\ seq.pos < Len(seq.ws)
  /\ seq' = [seq EXCEPT !.pc = "loop"]
  /\ UNCHANGED varsButSeq

\* the loop of sample takes a turn
SeqTurn ==
  /\ seq.pc = "loop"
  /\ seq.pos < Len(seq.ws)
  /\ LET r == sample_turn(seq.ty, Descriptor(seq.count, seq.threshold), seq.ws, seq.pos,
                          seq.outs)
     IN  seq' = [seq EXCEPT !.pos = r.pos, !.outs = r.outs, !.pc = r.pc]
  /\ UNCHANGED varsButSeq

SeqNext == SeqSample \/ SeqTurn

SpecSeq == SeqInit /\ [][SeqNext]_vars

\* the high halves of the words of ws[1 .. n] whose low half is not below
\* the threshold, in their order
RECURSIVE AcceptedHighs(_, _)
AcceptedHighs(ws, n) ==
  IF n = 0 THEN <<>>
  ELSE LET mul == ws[n] * seq.count
           rest == AcceptedHighs(ws, n - 1)
       IN  IF mul % 2^BrBits(seq.ty) < seq.threshold THEN rest
           ELSE Append(rest, mul \div 2^BrBits(seq.ty))

\* C25: on a fixed word sequence sample draws the words in order, drops the
\* rejected ones, returns the high half of the first accepted word and draws
\* no word after it: the calls made so far have returned the high halves of
\* the accepted words among those drawn, in order, and a call that returned
\* stopped at an accepted word.
C25_SampleDeterministic ==
  seq.ty # "none" =>
    /\ seq.pos <= Len(seq.ws)
    /\ seq.outs = AcceptedHighs(seq.ws, seq.pos)
    /\ (seq.pc = "returned" /\ seq.pos > 0) =>
         /\ place_in_range(seq.ty, Descriptor(seq.count, seq.threshold),
                           seq.ws[seq.pos]).some
         /\ seq.outs[Len(seq.outs)] =
              (seq.ws[seq.pos] * seq.count) \div 2^BrBits(seq.ty)

\* BoundedRandU32::new(6): a word was rejected, then two calls returned
C25_Witness ==
  /\ seq.ty = "U32"
  /\ seq.count = 6
  /\ seq.ws = <<0, 2^(Bits32 - 1) + 1, MaxOf(Bits32)>>
  /\ seq.pos = 3
  /\ seq.pc = "returned"
  /\ Len(seq.outs) = 2
  /\ seq.outs[1] < seq.outs[2]

(***************************************************************************)
(* dice.rs, games.rs, games/standard_die.rs, games/exploding_die.rs: dice. *)
(* An i32 is Bits32 bits wide, two's complement; the generator yields the  *)
(* words ws[1], ws[2], ...; rolls lists the values the standard die gave.  *)
(***************************************************************************)
MinI32 == -(2^(Bits32 - 1))
MaxI32 == 2^(Bits32 - 1) - 1

\* x as i32, and the wrapping i32 arithmetic
as_i32(x) == ((x + 2^(Bits32 - 1)) % 2^Bits32) - 2^(Bits32 - 1)
i32_wrapping_add(a, b) == as_i32(a + b)
i32_wrapping_sub(a, b) == as_i32(a - b)

\* StandardDie::sides and ExplodingDie::sides: self.0.count() as i32
Die_sides(d) == as_i32(d.count)

\* a roll that starts at 0 instead of 1
StandardDie_sample_zero(d, ws, i, debug) ==
  LET r == sample_from("U32", d, ws, i)
  IN  [val |-> as_i32(r.out), next |-> r.used + 1, more |-> r.more, panic |-> FALSE]

\* StandardDie::sample, drawing from ws[i] on: 1 + self.0.sample(gen) as i32;
\* the addition panics on overflow in a build with overflow checks and wraps
\* in a build without them
StandardDie_sample(d, ws, i, debug) ==
  LET r == sample_from("U32", d, ws, i)
      sum == 1 + as_i32(r.out)
  IN  [val |-> as_i32(sum), next |-> r.used + 1, more |-> r.more,
       panic |-> ~r.more /\ debug /\ sum > MaxI32]

\* ExplodingDie::sample, t being the total so far
RECURSIVE ExplodingDie_sample(_, _, _, _, _, _)
ExplodingDie_sample(d, ws, i, debug, t, rolls) ==
  LET r == StandardDie_sample(d, ws, i, debug)
  IN  IF r.more \/ r.panic
      THEN [val |-> 0, next |-> r.next, more |-> r.more, panic |-> r.panic, rolls |-> rolls]
      ELSE IF r.val = Die_sides(d)
      THEN ExplodingDie_sample(d, ws, r.next, debug,
                               i32_wrapping_add(i32_wrapping_add(t, 1), Die_sides(d)),
                               Append(rolls, r.val))
      ELSE LET last == StandardDie_sample(d, ws, r.next, debug)
           IN  [val |-> i32_wrapping_add(t, last.val), next |-> last.next,
                more |-> last.more, panic |-> last.panic,
                rolls |-> Append(Append(rolls, r.val), last.val)]

\* the dice games.rs names
D4 == StandardDie_new(4)
D6 == StandardDie_new(6)
D8 == StandardDie_new(8)
D10 == StandardDie_new(10)
D12 == StandardDie_new(12)
D20 == StandardDie_new(20)

\* games::dice, the two while loops: count rolls are still to be made
RECURSIVE dice_loop(_, _, _, _, _, _, _)
dice_loop(range, ws, i, debug, count, t, rolls) ==
  IF count = 0
  THEN [val |-> t, next |-> i, more |-> FALSE, panic |-> FALSE, rolls |-> rolls]
  ELSE LET r == StandardDie_sample(range, ws, i, debug)
       IN  IF r.more \/ r.panic
           THEN [val |-> 0, next |-> r.next, more |-> r.more, panic |-> r.panic,
                 rolls |-> rolls]
           ELSE IF count > 0
           THEN dice_loop(range, ws, r.next, debug, count - 1,
                          i32_wrapping_add(t, r.val), Append(rolls, r.val))
           ELSE dice_loop(range, ws, r.next, debug, count + 1,
                          i32_wrapping_sub(t, r.val), Append(rolls, r.val))

\* games::dice(g, count, sides)
dice(ws, debug, count, sides) ==
  IF sides < 1
  THEN [val |-> 0, next |-> 1, more |-> FALSE, panic |-> FALSE, rolls |-> <<>>]
  ELSE IF sides = 1
  THEN [val |-> count, next |-> 1, more |-> FALSE, panic |-> FALSE, rolls |-> <<>>]
  ELSE LET range == CASE sides = 4 -> D4
                      [] sides = 6 -> D6
                      [] sides = 8 -> D8
                      [] sides = 10 -> D10
                      [] sides = 12 -> D12
                      [] sides = 20 -> D20
                      [] OTHER -> StandardDie_new(sides % 2^Bits32)
       IN  dice_loop(range, ws, 1, debug, count, 0, <<>>)

\* the words a generator yields to a die
DieWords == {0, 1, 2^(Bits32 - 1), MaxOf(Bits32)}
DieStreams == UNION {[1 .. n -> DieWords] : n \in 1 .. MaxDraws}
DiceStreams == DieStreams \cup {<<>>}

\* the counts dice is called with: more dice than that outlast every stream
DiceCounts == -(MaxDraws + 1) .. MaxDraws + 1

DieInit ==
  /\ die = DieIdle
  /\ walk = WalkIdle /\ comp = CompIdle /\ pcg = PcgIdle /\ pcgk = PcgkIdle /\ br = BrIdle /\ fl = FlIdle /\ pair = PairIdle /\ os = OsIdle /\ per = PerIdle /\ seq = SeqIdle /\ ex = ExIdle /\ sh = ShIdle

\* StandardDie::new(sides).sample(g), g yielding exactly the words ws
DieStandardSample(sides, debug, ws) ==
  /\ die.fn = "none"
  /\ LET r == StandardDie_sample(StandardDie_new(sides), ws, 1, debug)
     IN  /\ ~r.more
         /\ r.next = Len(ws) + 1
         /\ die' = [fn |-> "StandardDie::sample", sides |-> sides, count |-> 1,
                    debug |-> debug, ws |-> ws, rolls |-> <<r.val>>,
                    result |-> IF r.panic THEN 0 ELSE r.val, panic |-> r.panic]
  /\ UNCHANGED varsButDie

\* ExplodingDie::new(sides).sample(g), g yielding exactly the words ws
DieExplodingSample(sides, debug, ws) ==
  /\ die.fn = "none"
  /\ LET r == ExplodingDie_sample(ExplodingDie_new(sides), ws, 1, debug, 0, <<>>)
     IN  /\ ~r.more
         /\ r.next = Len(ws) + 1
         /\ die' = [fn |-> "ExplodingDie::sample", sides |-> sides, count |-> 1,
                    debug |-> debug, ws |-> ws, rolls |-> r.rolls,
                    result |-> IF r.panic THEN 0 ELSE r.val, panic |-> r.panic]
  /\ UNCHANGED varsButDie

RECURSIVE SumSeq(_)
SumSeq(q) == IF q = <<>> THEN 0 ELSE Head(q) + SumSeq(Tail(q))

\* C21: an exploding roll is the sum of the standard-die rolls it drew, each
\* counted once: k rolls showing the maximum, then one roll r below it, so
\* the result is k * sides + r with 1 <= r < sides.
C21_ExplodingIsSumOfRolls ==
  (die.fn = "ExplodingDie::sample" /\ ~die.panic /\ die.sides <= MaxI32
     /\ SumSeq(die.rolls) <= MaxI32) =>
    /\ die.result = SumSeq(die.rolls)
    /\ \A j \in 1 .. Len(die.rolls) - 1 : die.rolls[j] = die.sides
    /\ die.rolls[Len(die.rolls)] < die.sides
    /\ die.rolls[Len(die.rolls)] >= 1

\* C22: StandardDie::new(N).sample returns a value of 1 ..= N, for every N
\* of 1 ..= u32::MAX and every stream, and does not fail.
C22_StandardDieInRange ==
  die.fn = "StandardDie::sample" =>
    /\ ~die.panic
    /\ die.result >= 1
    /\ die.result <= die.sides

Abs(x) == IF x < 0 THEN -x ELSE x

DieDice(count, sides, debug, ws) ==
  /\ die.fn = "none"
  /\ LET r == dice(ws, debug, count, sides)
     IN  /\ ~r.more
         /\ r.next = Len(ws) + 1
         /\ die' = [fn |-> "dice", sides |-> sides, count |-> count,
                    debug |-> debug, ws |-> ws, rolls |-> r.rolls,
                    result |-> IF r.panic THEN 0 ELSE r.val, panic |-> r.panic]
  /\ UNCHANGED varsButDie

\* the calls still to be made: one call is made on a fresh generator
DieCallsLeft == IF die.fn = "none" THEN 1 ELSE 0

DieNext ==
  \/ \E call \in 1 .. DieCallsLeft :
       \E sides \in 1 .. MaxOf(Bits32), debug \in BOOLEAN, ws \in DieStreams :
         DieStandardSample(sides, debug, ws)
  \/ \E call \in 1 .. DieCallsLeft :
       \E sides \in 1 .. MaxOf(Bits32), debug \in BOOLEAN, ws \in DieStreams :
         DieExplodingSample(sides, debug, ws)
  \/ \E call \in 1 .. DieCallsLeft :
       \E count \in DiceCounts, sides \in MinI32 .. MaxI32, debug \in BOOLEAN,
          ws \in DiceStreams :
         DieDice(count, sides, debug, ws)

SpecDie == DieInit /\ [][DieNext]_vars

====
